---- MODULE Spec2Model ----
(***************************************************************************)
(* The Shifter web-scraping SDK (src/lib.rs): the QueryBuilder, which      *)
(* accumulates the parameters, headers and body of one request, and the    *)
(* WebScrapingAPI client, which turns them into one HTTP request.          *)
(*                                                                         *)
(* A string is a sequence of characters; a character is a one-character    *)
(* TLA+ string, and the line feed U+000A is written "LF".  A HashMap is a  *)
(* function from its keys to its values.                                   *)
(***************************************************************************)
EXTENDS Integers, Sequences, FiniteSets, TLC

VARIABLES
    key,      \* WebScrapingAPI.key, fixed at construction
    qb,       \* the caller's QueryBuilder: "none" (none constructed yet), "alive", or
              \* "moved" (handed to get, post or put)
    params,   \* QueryBuilder.params
    headers,  \* QueryBuilder.headers
    body,     \* QueryBuilder.body
    written,  \* history: per mapping, what was last written to it (per parameter name,
              \* the value its setter was last called with)
    arg,      \* the mapping params_to_api_url is applied to when it is exercised alone
    given,    \* history: the mappings the latest call of the client was given
    result,   \* how the latest operation ended: [op, kind, val]
    sent      \* the exchanges with the HTTP client during the latest operation:
              \* each the request handed to send() and what send() answered

vars == <<key, qb, params, headers, body, written, arg, given, result, sent>>

\* ---------------------------------------------------------------- bounds

\* The largest number of entries the three mappings of one builder hold together.
MaxEntries == 2

\* ---------------------------------------------------------------- strings

\* The 16 fixed keys of the typed setters and getters.
k_url == <<"u", "r", "l">>
k_render_js == <<"r", "e", "n", "d", "e", "r", "_", "j", "s">>
k_proxy_type == <<"p", "r", "o", "x", "y", "_", "t", "y", "p", "e">>
k_country == <<"c", "o", "u", "n", "t", "r", "y">>
k_keep_headers == <<"k", "e", "e", "p", "_", "h", "e", "a", "d", "e", "r", "s">>
k_session == <<"s", "e", "s", "s", "i", "o", "n">>
k_timeout == <<"t", "i", "m", "e", "o", "u", "t">>
k_device == <<"d", "e", "v", "i", "c", "e">>
k_wait_until == <<"w", "a", "i", "t", "_", "u", "n", "t", "i", "l">>
k_wait_for == <<"w", "a", "i", "t", "_", "f", "o", "r">>
k_wait_for_css == <<"w", "a", "i", "t", "_", "f", "o", "r", "_", "c", "s", "s">>
k_screenshot == <<"s", "c", "r", "e", "e", "n", "s", "h", "o", "t">>
k_extract_rules == <<"e", "x", "t", "r", "a", "c", "t", "_", "r", "u", "l", "e", "s">>
k_disable_stealth == <<"d", "i", "s", "a", "b", "l", "e", "_", "s", "t", "e", "a", "l", "t", "h">>
k_auto_parser == <<"a", "u", "t", "o", "_", "p", "a", "r", "s", "e", "r">>
k_js_instructions == <<"j", "s", "_", "i", "n", "s", "t", "r", "u", "c", "t", "i", "o", "n", "s">>

ParamNames ==
    {k_url, k_render_js, k_proxy_type, k_country,
     k_keep_headers, k_session, k_timeout, k_device,
     k_wait_until, k_wait_for, k_wait_for_css, k_screenshot,
     k_extract_rules, k_disable_stealth, k_auto_parser, k_js_instructions}

\* The values the caller passes to the typed setters.
ParamValues == {<<"1">>, <<"a", " ", "b">>}

\* The header mappings the caller passes to headers(): two well-formed names, one
\* well-formed value and one value holding a line feed.
HeaderNames == {<<"X", "-", "A">>, <<"b">>}
HeaderValues == {<<"o", "k">>, <<"a", "LF">>}

\* The body mappings the caller passes to body().
BodyNames == {<<"k">>, <<"j">>}
BodyValues == {<<"1">>}

\* ---------------------------------------------------------------- HashMap

EmptyMap == [x \in {} |-> <<>>]

\* Every mapping from a subset of ks to vs.
Maps(ks, vs) == UNION {[d -> vs] : d \in SUBSET ks}

HeaderMaps == Maps(HeaderNames, HeaderValues)
BodyMaps == Maps(BodyNames, BodyValues)

\* A faulty insert that keeps the value a key already has (entry().or_insert()).
insert_if_absent(m, k, v) == [x \in DOMAIN m \cup {k} |-> IF x \in DOMAIN m THEN m[x] ELSE v]

\* HashMap::insert: the entry of k becomes v, every other entry stays.
insert(m, k, v) == [x \in DOMAIN m \cup {k} |-> IF x = k THEN v ELSE m[x]]

\* HashMap::get: an Option.
None == <<"None">>
Some(v) == <<"Some", v>>
hashmap_get(m, k) == IF k \in DOMAIN m THEN Some(m[k]) ELSE None

\* ---------------------------------------------------------------- outcomes

\* An operation ends by returning Ok(v) or Err(e), or it panics: the thread unwinds
\* and nothing is returned.
Ok(v) == [kind |-> "Ok", val |-> v]
Err(e) == [kind |-> "Err", val |-> e]
Panic(msg) == [kind |-> "Panic", val |-> msg]
Unit == "()"

Outcome(op, o) == [op |-> op, kind |-> o.kind, val |-> o.val]

\* Option::unwrap panics on None.
unwrap(o) == IF o = None THEN Panic("called Option::unwrap() on a None value") ELSE Ok(o[2])

\* After a panic the calling thread is unwinding: it performs no further operation.
Running == result.kind # "Panic"

Size(m) == Cardinality(DOMAIN m)

\* The history of a new builder (new() assigns three empty mappings), and the
\* history after a call of the setter of k with v.
NothingWritten == [params |-> EmptyMap, headers |-> EmptyMap, body |-> EmptyMap]
Recorded(w, k, v) == [x \in DOMAIN w \cup {k} |-> IF x = k THEN v ELSE w[x]]

\* ---------------------------------------------------------------- QueryBuilder

\* QueryBuilder::new
new ==
    /\ Running
    /\ qb = "none"
    /\ qb' = "alive"
    /\ params' = EmptyMap
    /\ headers' = EmptyMap
    /\ body' = EmptyMap
    /\ written' = NothingWritten
    /\ result' = Outcome("new", Ok(Unit))
    /\ sent' = <<>>
    /\ UNCHANGED <<key, arg, given>>

\* QueryBuilder::get_params
get_params ==
    /\ Running
    /\ qb = "alive"
    /\ result' = Outcome("get_params", Ok(params))
    /\ sent' = <<>>
    /\ UNCHANGED <<key, qb, params, headers, body, written, arg, given>>

\* A faulty headers() that merges the new mapping into the old one
\* (self.headers.extend(headers)).
headers_extend(m) ==
    /\ Running
    /\ qb = "alive"
    /\ Size(params) + Size(m) + Size(body) <= MaxEntries
    /\ headers' = [x \in DOMAIN headers \cup DOMAIN m |-> IF x \in DOMAIN m THEN m[x] ELSE headers[x]]
    /\ written' = [written EXCEPT !.headers = m]
    /\ result' = Outcome("headers", Ok(Unit))
    /\ sent' = <<>>
    /\ UNCHANGED <<key, qb, params, body, arg, given>>

\* QueryBuilder::headers
headers_set(m) ==
    /\ Running
    /\ qb = "alive"
    /\ Size(params) + Size(m) + Size(body) <= MaxEntries
    /\ headers' = m
    /\ written' = [written EXCEPT !.headers = m]
    /\ result' = Outcome("headers", Ok(Unit))
    /\ sent' = <<>>
    /\ UNCHANGED <<key, qb, params, body, arg, given>>

\* QueryBuilder::get_headers
get_headers ==
    /\ Running
    /\ qb = "alive"
    /\ result' = Outcome("get_headers", Ok(headers))
    /\ sent' = <<>>
    /\ UNCHANGED <<key, qb, params, headers, body, written, arg, given>>

\* QueryBuilder::body
body_set(m) ==
    /\ Running
    /\ qb = "alive"
    /\ Size(params) + Size(headers) + Size(m) <= MaxEntries
    /\ body' = m
    /\ written' = [written EXCEPT !.body = m]
    /\ result' = Outcome("body", Ok(Unit))
    /\ sent' = <<>>
    /\ UNCHANGED <<key, qb, params, headers, arg, given>>

\* QueryBuilder::get_body
get_body ==
    /\ Running
    /\ qb = "alive"
    /\ result' = Outcome("get_body", Ok(body))
    /\ sent' = <<>>
    /\ UNCHANGED <<key, qb, params, headers, body, written, arg, given>>

\* A faulty typed setter that inserts into the body mapping (self.body.insert(k, value)).
param_set_into_body(op, k, value) ==
    /\ Running
    /\ qb = "alive"
    /\ Size(params) + Size(headers) + Size(insert(body, k, value)) <= MaxEntries
    /\ body' = insert(body, k, value)
    /\ written' = [written EXCEPT !.params = Recorded(written.params, k, value)]
    /\ result' = Outcome(op, Ok(Unit))
    /\ sent' = <<>>
    /\ UNCHANGED <<key, qb, params, headers, arg, given>>

\* The body shared by the 16 typed setters: self.params.insert(k, value).
param_set(op, k, value) ==
    /\ Running
    /\ qb = "alive"
    /\ Size(insert(params, k, value)) + Size(headers) + Size(body) <= MaxEntries
    /\ params' = insert(params, k, value)
    /\ written' = [written EXCEPT !.params = Recorded(written.params, k, value)]
    /\ result' = Outcome(op, Ok(Unit))
    /\ sent' = <<>>
    /\ UNCHANGED <<key, qb, headers, body, arg, given>>

\* The body shared by the 16 typed getters:
\*     let result = self.params.get(k).unwrap(); Ok(*result)
param_get(op, k) ==
    /\ Running
    /\ qb = "alive"
    /\ result' = Outcome(op, unwrap(hashmap_get(params, k)))
    /\ sent' = <<>>
    /\ UNCHANGED <<key, qb, params, headers, body, written, arg, given>>

url(value) == param_set("url", k_url, value)
get_url == param_get("get_url", k_url)

render_js(value) == param_set("render_js", k_render_js, value)
get_render_js == param_get("get_render_js", k_render_js)

proxy_type(value) == param_set("proxy_type", k_proxy_type, value)
get_proxy_type == param_get("get_proxy_type", k_proxy_type)

country(value) == param_set("country", k_country, value)
get_country == param_get("get_country", k_country)

keep_headers(value) == param_set("keep_headers", k_keep_headers, value)
get_keep_headers == param_get("get_keep_headers", k_keep_headers)

session(value) == param_set("session", k_session, value)
get_session == param_get("get_session", k_session)

timeout(value) == param_set("timeout", k_timeout, value)
get_timeout == param_get("get_timeout", k_timeout)

device(value) == param_set("device", k_device, value)
get_device == param_get("get_device", k_device)

wait_until(value) == param_set("wait_until", k_wait_until, value)
get_wait_until == param_get("get_wait_until", k_wait_until)

wait_for(value) == param_set("wait_for", k_wait_for, value)
get_wait_for == param_get("get_wait_for", k_wait_for)

wait_for_css(value) == param_set("wait_for_css", k_wait_for_css, value)
get_wait_for_css == param_get("get_wait_for_css", k_wait_for_css)

screenshot(value) == param_set("screenshot", k_screenshot, value)
get_screenshot == param_get("get_screenshot", k_screenshot)

extract_rules(value) == param_set("extract_rules", k_extract_rules, value)
get_extract_rules == param_get("get_extract_rules", k_extract_rules)

disable_stealth(value) == param_set("disable_stealth", k_disable_stealth, value)
get_disable_stealth == param_get("get_disable_stealth", k_disable_stealth)

auto_parser(value) == param_set("auto_parser", k_auto_parser, value)
get_auto_parser == param_get("get_auto_parser", k_auto_parser)

js_instructions(value) == param_set("js_instructions", k_js_instructions, value)
get_js_instructions == param_get("get_js_instructions", k_js_instructions)

\* The builder's operations.
BuilderNext ==
    \/ new
    \/ get_params
    \/ \E m \in HeaderMaps : headers_set(m)
    \/ get_headers
    \/ \E m \in BodyMaps : body_set(m)
    \/ get_body
    \/ \E v \in ParamValues : url(v)
    \/ get_url
    \/ \E v \in ParamValues : render_js(v)
    \/ get_render_js
    \/ \E v \in ParamValues : proxy_type(v)
    \/ get_proxy_type
    \/ \E v \in ParamValues : country(v)
    \/ get_country
    \/ \E v \in ParamValues : keep_headers(v)
    \/ get_keep_headers
    \/ \E v \in ParamValues : session(v)
    \/ get_session
    \/ \E v \in ParamValues : timeout(v)
    \/ get_timeout
    \/ \E v \in ParamValues : device(v)
    \/ get_device
    \/ \E v \in ParamValues : wait_until(v)
    \/ get_wait_until
    \/ \E v \in ParamValues : wait_for(v)
    \/ get_wait_for
    \/ \E v \in ParamValues : wait_for_css(v)
    \/ get_wait_for_css
    \/ \E v \in ParamValues : screenshot(v)
    \/ get_screenshot
    \/ \E v \in ParamValues : extract_rules(v)
    \/ get_extract_rules
    \/ \E v \in ParamValues : disable_stealth(v)
    \/ get_disable_stealth
    \/ \E v \in ParamValues : auto_parser(v)
    \/ get_auto_parser
    \/ \E v \in ParamValues : js_instructions(v)
    \/ get_js_instructions

\* ---------------------------------------------------------------- characters

Lowercase ==
    {"a", "b", "c", "d", "e", "f", "g", "h", "i", "j", "k", "l", "m",
     "n", "o", "p", "q", "r", "s", "t", "u", "v", "w", "x", "y", "z"}
Uppercase ==
    {"A", "B", "C", "D", "E", "F", "G", "H", "I", "J", "K", "L", "M",
     "N", "O", "P", "Q", "R", "S", "T", "U", "V", "W", "X", "Y", "Z"}
Digits == {"0", "1", "2", "3", "4", "5", "6", "7", "8", "9"}

\* char::to_ascii_lowercase on the letters.
ToLower ==
    [c \in Uppercase |->
        CASE c = "A" -> "a" [] c = "B" -> "b" [] c = "C" -> "c" [] c = "D" -> "d"
          [] c = "E" -> "e" [] c = "F" -> "f" [] c = "G" -> "g" [] c = "H" -> "h"
          [] c = "I" -> "i" [] c = "J" -> "j" [] c = "K" -> "k" [] c = "L" -> "l"
          [] c = "M" -> "m" [] c = "N" -> "n" [] c = "O" -> "o" [] c = "P" -> "p"
          [] c = "Q" -> "q" [] c = "R" -> "r" [] c = "S" -> "s" [] c = "T" -> "t"
          [] c = "U" -> "u" [] c = "V" -> "v" [] c = "W" -> "w" [] c = "X" -> "x"
          [] c = "Y" -> "y" [] c = "Z" -> "z"]

\* ---------------------------------------------------------------- urlencoding::encode

\* The characters encode() copies; every other byte becomes %XX.
Unreserved == Lowercase \cup Uppercase \cup Digits \cup {"-", "_", ".", "~"}

\* %XX of the other characters that occur in the model's strings.
PercentCode(c) ==
    CASE c = " " -> <<"%", "2", "0">>
      [] c = "%" -> <<"%", "2", "5">>
      [] c = "&" -> <<"%", "2", "6">>
      [] c = "/" -> <<"%", "2", "F">>
      [] c = ":" -> <<"%", "3", "A">>
      [] c = "=" -> <<"%", "3", "D">>
      [] c = "?" -> <<"%", "3", "F">>
      [] c = "LF" -> <<"%", "0", "A">>

RECURSIVE encode(_)
encode(s) ==
    IF s = <<>> THEN <<>>
    ELSE (IF Head(s) \in Unreserved THEN <<Head(s)>> ELSE PercentCode(Head(s)))
         \o encode(Tail(s))

\* ---------------------------------------------------------------- HeaderMap

\* A header name is a non-empty token; HeaderName::try_from lower-cases it. (The
\* apostrophe and the backquote are token characters too; no string of the model
\* holds them.)
TokenChars ==
    Lowercase \cup Uppercase \cup Digits
    \cup {"!", "#", "$", "%", "&", "*", "+", "-", ".", "^", "_", "|", "~"}
header_name_ok(s) == s # <<>> /\ \A i \in 1..Len(s) : s[i] \in TokenChars
header_name(s) == [i \in 1..Len(s) |-> IF s[i] \in Uppercase THEN ToLower[s[i]] ELSE s[i]]

\* A header value holds no control character.
ControlChars == {"LF"}
header_value_ok(s) == \A i \in 1..Len(s) : s[i] \notin ControlChars

\* The entries of the converted map: a bag of <<lower-cased name, value>>, since two
\* names that differ in case only are appended under one header name.
HeaderEntries(h) == {<<header_name(k), h[k]>> : k \in DOMAIN h}
HeaderMapOf(h) ==
    [e \in HeaderEntries(h) |->
        Cardinality({k \in DOMAIN h : <<header_name(k), h[k]>> = e})]

\* (&HashMap<String, String>).try_into() for HeaderMap: every name and every value
\* must convert.
try_into(h) ==
    IF \A k \in DOMAIN h : header_name_ok(k) /\ header_value_ok(h[k])
    THEN Ok(HeaderMapOf(h))
    ELSE Err("http::Error")

\* Result::expect: the Ok value, or a panic with msg.
expect(r, msg) == IF r.kind = "Err" THEN Panic(msg) ELSE r

\* ---------------------------------------------------------------- WebScrapingAPI

\* "https://scrape.shifter.io/v1?api_key="
ApiBase ==
    <<"h", "t", "t", "p", "s", ":", "/", "/",
      "s", "c", "r", "a", "p", "e", ".", "s", "h", "i", "f", "t", "e", "r", ".", "i", "o",
      "/", "v", "1", "?", "a", "p", "i", "_", "k", "e", "y", "=">>

\* The orders in which a HashMap with the keys ks may yield them: each key once.
Orders(ks) ==
    {o \in [1..Cardinality(ks) -> ks] : \A k \in ks : \E i \in DOMAIN o : o[i] = k}

\* A faulty final_value that encodes the value of every key.
final_value_all_encoded(k, value) == encode(value)

\* final_value: only the value of the key "url" is encoded.
final_value(k, value) == IF k = k_url THEN encode(value) ELSE value

\* A faulty format string that puts the separator after the entry: "{}={}&".
parameter_query_string_trailing(k, value) == k \o <<"=">> \o final_value(k, value) \o <<"&">>

\* format!("&{}={}", key, final_value)
parameter_query_string(k, value) == <<"&">> \o k \o <<"=">> \o final_value(k, value)

\* The loop of params_to_api_url over the entries in the order the map yields them.
RECURSIVE query_string(_, _)
query_string(p, order) ==
    IF order = <<>> THEN <<>>
    ELSE parameter_query_string(Head(order), p[Head(order)]) \o query_string(p, Tail(order))

\* WebScrapingAPI::params_to_api_url
params_to_api_url(api_key, p, order) == ApiBase \o api_key \o query_string(p, order)

\* What the HTTP client answers to send(): a response, whatever its status, or an error.
Responses == {"response 200", "response 500"}
TransportErrors == {"connect error", "timed out"}
TransportOutcomes == {Ok(r) : r \in Responses} \cup {Err(e) : e \in TransportErrors}

\* A GET request carries no body.
NoBody == None

\* self.client.<method>(api_url)[.json(&body)].headers(headers): the request handed to send().
Request(method, api_url, hm, json) ==
    [method |-> method, url |-> api_url, headers |-> hm, json |-> json]

\* A faulty error path that answers a failed send() with an empty success
\* (send().await.unwrap_or_default()).
question_mark_swallowing(o) == IF o.kind = "Err" THEN Ok("empty response") ELSE Ok(o.val)

\* send().await? : an error of the transport is returned to the caller as it is.
question_mark(o) == IF o.kind = "Err" THEN Err(o.val) ELSE Ok(o.val)

\* The body shared by the six calls: convert the headers (panicking on a failure),
\* build the URL, send once, return the response or the error of the transport.
call(op, method, p, h, json, order, outcome) ==
    /\ given' = [params |-> p, headers |-> h, body |-> json]
    /\ LET hm == expect(try_into(h), "Invalid headers") IN
         IF hm.kind = "Panic"
         THEN /\ sent' = <<>>
              /\ result' = Outcome(op, hm)
         ELSE /\ sent' = <<[request |-> Request(method, params_to_api_url(key, p, order),
                                                hm.val, json),
                            answer |-> outcome]>>
              /\ result' = Outcome(op, question_mark(outcome))

\* The builder is moved into the call: the caller can use it no more. The variables
\* of the builder keep what it held when it was moved.
Moved ==
    /\ qb' = "moved"
    /\ UNCHANGED <<params, headers, body, written>>

\* WebScrapingAPI::get
get ==
    /\ Running
    /\ qb = "alive"
    /\ \E order \in Orders(DOMAIN params), outcome \in TransportOutcomes :
          call("get", "GET", params, headers, NoBody, order, outcome)
    /\ Moved
    /\ UNCHANGED <<key, arg>>

\* A faulty post that leaves out .json(&body), as get does.
post_without_body ==
    /\ Running
    /\ qb = "alive"
    /\ \E order \in Orders(DOMAIN params), outcome \in TransportOutcomes :
          call("post", "POST", params, headers, NoBody, order, outcome)
    /\ Moved
    /\ UNCHANGED <<key, arg>>

\* WebScrapingAPI::post
post ==
    /\ Running
    /\ qb = "alive"
    /\ \E order \in Orders(DOMAIN params), outcome \in TransportOutcomes :
          call("post", "POST", params, headers, Some(body), order, outcome)
    /\ Moved
    /\ UNCHANGED <<key, arg>>

\* WebScrapingAPI::put
put ==
    /\ Running
    /\ qb = "alive"
    /\ \E order \in Orders(DOMAIN params), outcome \in TransportOutcomes :
          call("put", "PUT", params, headers, Some(body), order, outcome)
    /\ Moved
    /\ UNCHANGED <<key, arg>>

\* The mappings the caller passes to the raw calls: a parameter name outside the 16,
\* a header name that is no token, a header value with a line feed.
RawParamMaps ==
    {EmptyMap,
     [x \in {k_url} |-> <<"a", " ", "b">>],
     [x \in {k_url, <<"n", "e", "w">>} |-> <<"a", ":", "b">>]}
RawHeaderMaps ==
    {EmptyMap,
     [x \in {<<"X", "-", "A">>} |-> <<"o", "k">>],
     [x \in {<<"X", "-", "A">>} |-> <<"a", "LF">>],
     [x \in {<<"b", " ", "c">>} |-> <<"o", "k">>]}
RawBodyMaps == {EmptyMap, [x \in {<<"k">>} |-> <<"1">>]}

\* A raw call takes its mappings as arguments and no builder: the caller that holds
\* no builder makes it.
\* WebScrapingAPI::raw_get
raw_get ==
    /\ Running
    /\ qb = "none"
    /\ \E p \in RawParamMaps, h \in RawHeaderMaps :
          \E order \in Orders(DOMAIN p), outcome \in TransportOutcomes :
             call("raw_get", "GET", p, h, NoBody, order, outcome)
    /\ UNCHANGED <<key, qb, params, headers, body, written, arg>>

\* WebScrapingAPI::raw_post
raw_post ==
    /\ Running
    /\ qb = "none"
    /\ \E p \in RawParamMaps, h \in RawHeaderMaps, b \in RawBodyMaps :
          \E order \in Orders(DOMAIN p), outcome \in TransportOutcomes :
             call("raw_post", "POST", p, h, Some(b), order, outcome)
    /\ UNCHANGED <<key, qb, params, headers, body, written, arg>>

\* WebScrapingAPI::raw_put
raw_put ==
    /\ Running
    /\ qb = "none"
    /\ \E p \in RawParamMaps, h \in RawHeaderMaps, b \in RawBodyMaps :
          \E order \in Orders(DOMAIN p), outcome \in TransportOutcomes :
             call("raw_put", "PUT", p, h, Some(b), order, outcome)
    /\ UNCHANGED <<key, qb, params, headers, body, written, arg>>

\* The calls of the client.
ClientNext == get \/ post \/ put \/ raw_get \/ raw_post \/ raw_put

\* ---------------------------------------------------------------- specifications

ApiKeys == {<<"K">>}

\* No operation of the run has ended yet.
NoResult == Outcome("none", Ok(Unit))
NothingGiven == [params |-> EmptyMap, headers |-> EmptyMap, body |-> None]

\* The life of one builder. WebScrapingAPI::new(api_key) has returned; the caller
\* holds no builder yet.
Init ==
    /\ key \in ApiKeys
    /\ qb = "none"
    /\ params = EmptyMap
    /\ headers = EmptyMap
    /\ body = EmptyMap
    /\ written = NothingWritten
    /\ arg = EmptyMap
    /\ given = NothingGiven
    /\ result = NoResult
    /\ sent = <<>>

SpecBuilder == Init /\ [][BuilderNext]_vars

\* The parameter mappings that at most n calls of typed setters leave in a builder.
RECURSIVE ParamMaps(_)
ParamMaps(n) ==
    IF n = 0 THEN {EmptyMap}
    ELSE LET prev == ParamMaps(n - 1) IN
         prev \cup {insert(m, k, v) : m \in prev, k \in ParamNames, v \in ParamValues}

\* The calls of the client. The caller holds no builder and passes plain mappings
\* to the raw calls, or holds a builder in any state its setters lead to.
InitClient ==
    /\ key \in ApiKeys
    /\ \/ /\ qb = "none"
          /\ params = EmptyMap
          /\ headers = EmptyMap
          /\ body = EmptyMap
          /\ written = NothingWritten
       \/ /\ qb = "alive"
          /\ params \in ParamMaps(MaxEntries)
          /\ headers \in HeaderMaps
          /\ body \in BodyMaps
          /\ Size(params) + Size(headers) + Size(body) <= MaxEntries
          /\ written = [params |-> params, headers |-> headers, body |-> body]
    /\ arg = EmptyMap
    /\ given = NothingGiven
    /\ result = NoResult
    /\ sent = <<>>

SpecClient == InitClient /\ [][ClientNext]_vars

\* params_to_api_url alone, over keys, names and values that hold reserved
\* characters.
UrlKeys == {<<"K">>, <<"k", "&", "x">>}
UrlNames == {k_url, <<"a">>, <<"a", "&", "b">>, <<"x", "=", "y">>}
UrlValues == {<<"1">>, <<"b", " ", "c">>, <<"p", "&", "q", "=", "r">>}

InitUrl ==
    /\ key \in UrlKeys
    /\ arg \in Maps(UrlNames, UrlValues)
    /\ qb = "none"
    /\ params = EmptyMap
    /\ headers = EmptyMap
    /\ body = EmptyMap
    /\ written = NothingWritten
    /\ given = NothingGiven
    /\ result = NoResult
    /\ sent = <<>>

\* self.params_to_api_url(arg)
apply_params_to_api_url ==
    /\ \E order \in Orders(DOMAIN arg) :
          result' = Outcome("params_to_api_url", Ok(params_to_api_url(key, arg, order)))
    /\ UNCHANGED <<key, qb, params, headers, body, written, arg, given, sent>>

SpecUrl == InitUrl /\ [][apply_params_to_api_url]_vars

\* ---------------------------------------------------------------- properties

\* The typed setters and getters, each with the key it works on.
TypedSetters ==
    {<<"url", k_url>>, <<"render_js", k_render_js>>,
     <<"proxy_type", k_proxy_type>>, <<"country", k_country>>,
     <<"keep_headers", k_keep_headers>>, <<"session", k_session>>,
     <<"timeout", k_timeout>>, <<"device", k_device>>,
     <<"wait_until", k_wait_until>>, <<"wait_for", k_wait_for>>,
     <<"wait_for_css", k_wait_for_css>>, <<"screenshot", k_screenshot>>,
     <<"extract_rules", k_extract_rules>>, <<"disable_stealth", k_disable_stealth>>,
     <<"auto_parser", k_auto_parser>>, <<"js_instructions", k_js_instructions>>}
TypedGetters ==
    {<<"get_url", k_url>>, <<"get_render_js", k_render_js>>,
     <<"get_proxy_type", k_proxy_type>>, <<"get_country", k_country>>,
     <<"get_keep_headers", k_keep_headers>>, <<"get_session", k_session>>,
     <<"get_timeout", k_timeout>>, <<"get_device", k_device>>,
     <<"get_wait_until", k_wait_until>>, <<"get_wait_for", k_wait_for>>,
     <<"get_wait_for_css", k_wait_for_css>>, <<"get_screenshot", k_screenshot>>,
     <<"get_extract_rules", k_extract_rules>>, <<"get_disable_stealth", k_disable_stealth>>,
     <<"get_auto_parser", k_auto_parser>>, <<"get_js_instructions", k_js_instructions>>}
MapGetters == {"get_params", "get_headers", "get_body"}
BuilderCalls == {"get", "post", "put"}
ClientCalls == {"get", "post", "put", "raw_get", "raw_post", "raw_put"}

\* The header mapping converts to a HeaderMap.
HeadersConvert(h) == \A k \in DOMAIN h : header_name_ok(k) /\ header_value_ok(h[k])

\* C1: every fallible operation (the 16 typed getters and the six calls of the
\* client) ends by returning a result, the successful value or an error value, and
\* never in another way such as an uncontrolled abort.
C1_EveryOperationReturns == result.kind \in {"Ok", "Err"}

\* C2: a typed getter called on a builder on which its setter was never called
\* returns the missing-parameter error: it yields no value, performs no transport
\* call and leaves the three mappings as they were.
C2_GetterBeforeSetterIsAnError ==
    \A g \in TypedGetters :
        (result.op = g[1] /\ g[2] \notin DOMAIN written.params)
            => /\ result.kind = "Err"
               /\ sent = <<>>
               /\ params = written.params
               /\ headers = written.headers
               /\ body = written.body

\* C3: a call of the client whose header mapping does not convert returns the
\* invalid-headers error, and the transport has observed no request of that call.
C3_InvalidHeadersAreAnErrorBeforeSend ==
    (result.op \in ClientCalls /\ ~HeadersConvert(given.headers))
        => /\ result.kind = "Err"
           /\ sent = <<>>

\* C4: get, post and put on a builder whose headers convert hand the transport
\* exactly one request, whatever it answers: with the method of the call, the URL
\* params_to_api_url makes of the parameter mapping of the builder, its headers and,
\* for post and put, its body mapping as the JSON body; get has no body.
C4_ExactlyOneRequestOfTheBuilder ==
    (result.op \in BuilderCalls /\ HeadersConvert(headers))
        => /\ Len(sent) = 1
           /\ sent[1].request.method =
                (CASE result.op = "get" -> "GET"
                   [] result.op = "post" -> "POST"
                   [] result.op = "put" -> "PUT")
           /\ \E order \in Orders(DOMAIN params) :
                 sent[1].request.url = params_to_api_url(key, params, order)
           /\ sent[1].request.headers = HeaderMapOf(headers)
           /\ sent[1].request.json = (IF result.op = "get" THEN None ELSE Some(body))

\* A post whose transport call failed, on a builder with parameters and a body.
C4_Witness ==
    /\ result.op = "post"
    /\ result.kind = "Err"
    /\ Len(sent) = 1
    /\ params # EmptyMap
    /\ body # EmptyMap

\* C7: a typed getter returns exactly the value its setter was last called with,
\* whatever other operations followed that call.
C7_GetterReturnsLastWritten ==
    \A g \in TypedGetters :
        (result.op = g[1] /\ g[2] \in DOMAIN written.params)
            => /\ result.kind = "Ok"
               /\ result.val = written.params[g[2]]

\* get_js_instructions returned a value while the builder holds another parameter too.
C7_Witness ==
    /\ result.op = "get_js_instructions"
    /\ result.kind = "Ok"
    /\ Size(params) = 2

\* C8: headers() and body() replace the whole mapping: get_headers returns exactly
\* the mapping headers() was last called with and get_body exactly the one body()
\* was last called with, with no entry of an earlier mapping left.
C8_SettersReplace ==
    /\ result.op = "get_headers" => (result.kind = "Ok" /\ result.val = written.headers)
    /\ result.op = "get_body" => (result.kind = "Ok" /\ result.val = written.body)

\* get_headers returned a mapping of one entry.
C8_Witness ==
    /\ result.op = "get_headers"
    /\ Size(written.headers) = 1
    /\ result.val = written.headers

\* C9: the answer of the transport to the single request of a call is what the call
\* returns: its error as the Err of the call, never a success and with no further
\* request, and its response as the Ok of the call, unmodified.
C9_TransportAnswerReturned ==
    (result.op \in ClientCalls /\ sent # <<>>)
        => /\ Len(sent) = 1
           /\ result.kind = sent[1].answer.kind
           /\ result.val = sent[1].answer.val

\* raw_put returned the timeout of the transport.
C9_Witness ==
    /\ result.op = "raw_put"
    /\ result.kind = "Err"
    /\ result.val = "timed out"
    /\ Len(sent) = 1

\* C10: each operation of the builder touches its own target only. A typed setter
\* changes the entry of its key and no other entry, nor the headers, nor the body;
\* headers() leaves parameters and body, body() leaves parameters and headers;
\* every getter leaves the three mappings.
C10_Frame ==
    [][/\ \A t \in TypedSetters :
            result'.op = t[1]
                => /\ headers' = headers
                   /\ body' = body
                   /\ DOMAIN params' = DOMAIN params \cup {t[2]}
                   /\ \A k \in DOMAIN params \ {t[2]} : params'[k] = params[k]
       /\ result'.op = "headers" => (params' = params /\ body' = body)
       /\ result'.op = "body" => (params' = params /\ headers' = headers)
       /\ (result'.op \in MapGetters \/ \E g \in TypedGetters : result'.op = g[1])
            => (params' = params /\ headers' = headers /\ body' = body)]_vars

\* render_js was set on a builder that holds another parameter.
C10_Witness ==
    /\ result.op = "render_js"
    /\ Size(params) = 2

\* The text of the URL after "https://scrape.shifter.io/v1?api_key=<key>".
AfterKey(u) == SubSeq(u, Len(ApiBase) + Len(key) + 1, Len(u))
BeginsWithKey(u) ==
    /\ Len(u) >= Len(ApiBase) + Len(key)
    /\ SubSeq(u, 1, Len(ApiBase) + Len(key)) = ApiBase \o key

\* The pieces of s between its "&": one more than it holds "&".
RECURSIVE Pieces(_)
Pieces(s) ==
    IF s = <<>> THEN << <<>> >>
    ELSE LET rest == Pieces(Tail(s)) IN
         IF Head(s) = "&" THEN << <<>> >> \o rest
         ELSE << <<Head(s)>> \o Head(rest) >> \o Tail(rest)

\* The segments of a query string: the text behind each "&", up to the next "&".
Segments(s) == Tail(Pieces(s))

\* The segment of an entry: name=value, the value of "url" percent-encoded.
SegmentOf(k, v) == k \o <<"=">> \o (IF k = k_url THEN encode(v) ELSE v)

\* The URL starts with the key and goes on with one segment per entry of arg, each
\* behind a "&".
OneSegmentPerEntry(u) ==
    /\ BeginsWithKey(u)
    /\ Head(Pieces(AfterKey(u))) = <<>>
    /\ \E order \in Orders(DOMAIN arg) :
          Segments(AfterKey(u)) = [i \in 1..Size(arg) |-> SegmentOf(order[i], arg[order[i]])]

HasAmpersand(s) == \E i \in 1..Len(s) : s[i] = "&"

\* No name and no value of a parameter other than "url" holds a "&".
NoStrayAmpersand(p) ==
    \A k \in DOMAIN p : ~HasAmpersand(k) /\ (k # k_url => ~HasAmpersand(p[k]))

\* C5, as stated: for every key and every mapping, also one whose names or values
\* hold "&" or "=", the URL begins with the base and the key and then holds exactly
\* one &name=value segment per entry.
C5_OneSegmentPerEntry ==
    result.op = "params_to_api_url" => OneSegmentPerEntry(result.val)

\* C5, amended: the same for every key and every mapping in which no name and no
\* value of a parameter other than "url" holds a "&"; "=" may occur anywhere.
C5_OneSegmentPerEntryWithoutAmpersand ==
    (result.op = "params_to_api_url" /\ NoStrayAmpersand(arg))
        => OneSegmentPerEntry(result.val)

\* A key with a "&", a name with a "=" and a url whose value holds "&" and "=".
C5_Witness ==
    /\ result.op = "params_to_api_url"
    /\ NoStrayAmpersand(arg)
    /\ key = <<"k", "&", "x">>
    /\ DOMAIN arg = {k_url, <<"a">>, <<"x", "=", "y">>}
    /\ arg[k_url] = <<"p", "&", "q", "=", "r">>

\* The percent-encoded form of the values, written out.
PercentEncoded(v) ==
    CASE v = <<"1">> -> <<"1">>
      [] v = <<"b", " ", "c">> -> <<"b", "%", "2", "0", "c">>
      [] v = <<"p", "&", "q", "=", "r">> -> <<"p", "%", "2", "6", "q", "%", "3", "D", "r">>

\* &name=value of the entries of p in the given order, every value as it is.
RECURSIVE Joined(_, _)
Joined(p, order) ==
    IF order = <<>> THEN <<>>
    ELSE <<"&">> \o Head(order) \o <<"=">> \o p[Head(order)] \o Joined(p, Tail(order))

\* C6: the value of the parameter "url" enters the URL percent-encoded and every
\* other value, like the key, character for character even when it holds a space
\* or another reserved character, whatever the order of the entries.
C6_OnlyUrlIsEncoded ==
    result.op = "params_to_api_url"
        => /\ BeginsWithKey(result.val)
           /\ \E order \in Orders(DOMAIN arg) :
                 AfterKey(result.val) =
                    Joined([k \in DOMAIN arg |->
                               IF k = k_url THEN PercentEncoded(arg[k]) ELSE arg[k]],
                           order)

\* b c under "url" and under another name, and a value with "&" and "=" under a third.
C6_Witness ==
    /\ result.op = "params_to_api_url"
    /\ DOMAIN arg = {k_url, <<"a">>, <<"x", "=", "y">>}
    /\ arg[k_url] = <<"b", " ", "c">>
    /\ arg[<<"a">>] = <<"b", " ", "c">>
    /\ arg[<<"x", "=", "y">>] = <<"p", "&", "q", "=", "r">>

====
